---------------------------- MODULE Spec2Model ----------------------------
(***************************************************************************)
(* A model of mvconfig (src/mvconfig.go): binding the fields of a struct   *)
(* to values found in the process environment, a properties file and the   *)
(* `def` tags, with `crit` fields that must resolve.                       *)
(*                                                                         *)
(* Go strings are TLA+ strings; a byte of a string is a string of length 1.*)
(* A Go error is a string ("nil" for no error).  A (value, ok) pair is a   *)
(* record.  A finite float is written as the exact decimal (or            *)
(* hexadecimal) number of its text and stands for the float nearest to it; *)
(* whether it rounds to an infinity or to zero is decided exactly.         *)
(***************************************************************************)
EXTENDS Integers, Sequences, FiniteSets, TLC

-----------------------------------------------------------------------------
(* Strings and bytes.                                                      *)

Char(s, i) == SubSeq(s, i, i)

Digits == {"0", "1", "2", "3", "4", "5", "6", "7", "8", "9"}

DigitVal(c) ==
    CASE c = "0" -> 0 [] c = "1" -> 1 [] c = "2" -> 2 [] c = "3" -> 3
      [] c = "4" -> 4 [] c = "5" -> 5 [] c = "6" -> 6 [] c = "7" -> 7
      [] c = "8" -> 8 [] c = "9" -> 9

\* A byte with its ASCII letter in lower case (strconv's lower(c) on letters,
\* the folding of strings.ToLower and of commonPrefixLenIgnoreCase).
lower(c) ==
    CASE c = "A" -> "a" [] c = "B" -> "b" [] c = "C" -> "c" [] c = "D" -> "d"
      [] c = "E" -> "e" [] c = "F" -> "f" [] c = "G" -> "g" [] c = "H" -> "h"
      [] c = "I" -> "i" [] c = "J" -> "j" [] c = "K" -> "k" [] c = "L" -> "l"
      [] c = "M" -> "m" [] c = "N" -> "n" [] c = "O" -> "o" [] c = "P" -> "p"
      [] c = "Q" -> "q" [] c = "R" -> "r" [] c = "S" -> "s" [] c = "T" -> "t"
      [] c = "U" -> "u" [] c = "V" -> "v" [] c = "W" -> "w" [] c = "X" -> "x"
      [] c = "Y" -> "y" [] c = "Z" -> "z"
      [] OTHER -> c

\* strings.ToLower
RECURSIVE ToLower(_)
ToLower(s) == IF s = "" THEN "" ELSE lower(Head(s)) \o ToLower(Tail(s))

RECURSIVE AllDigits(_)
AllDigits(s) == s = "" \/ (Head(s) \in Digits /\ AllDigits(Tail(s)))

RECURSIVE StripZeros(_)
StripZeros(s) == IF s # "" /\ Head(s) = "0" THEN StripZeros(Tail(s)) ELSE s

\* a < b for two digit strings of the same length
RECURSIVE DigitsLess(_, _)
DigitsLess(a, b) ==
    IF a = "" THEN FALSE
    ELSE IF Head(a) # Head(b) THEN DigitVal(Head(a)) < DigitVal(Head(b))
    ELSE DigitsLess(Tail(a), Tail(b))

\* the number a is greater than the number b, both digit strings
NumGreater(a, b) ==
    LET x == StripZeros(a)
        y == StripZeros(b)
    IN  IF Len(x) # Len(y) THEN Len(x) > Len(y) ELSE DigitsLess(y, x)

RECURSIVE DigitsValue(_, _)
DigitsValue(s, n) ==
    IF s = "" THEN n ELSE DigitsValue(Tail(s), n * 10 + DigitVal(Head(s)))

-----------------------------------------------------------------------------
(* strconv.Atoi, with int of 64 bits.                                      *)

MaxUint64 == "18446744073709551615"
MinInt64Abs == "9223372036854775808"

\* the values ParseInt returns with a range error, 2^63 - 1 and -2^63: they
\* are beyond the integers of TLC and are written as their decimal text
MaxInt64 == "9223372036854775807"
MinInt64 == "-9223372036854775808"

\* strconv.ParseUint(s, 10, 64): the bytes are read left to right; the first
\* byte that is no digit is a syntax error, the first prefix above MaxUint64
\* a range error.  The value is computed for the numbers TLC can hold.
RECURSIVE ParseUintFrom(_, _)
ParseUintFrom(s, i) ==
    IF i > Len(s) THEN "nil"
    ELSE IF Char(s, i) \notin Digits THEN "syntax"
    ELSE IF NumGreater(SubSeq(s, 1, i), MaxUint64) THEN "range"
    ELSE ParseUintFrom(s, i + 1)

ParseUint(s) == IF s = "" THEN "syntax" ELSE ParseUintFrom(s, 1)

\* strconv.ParseInt(s, 10, 0): a syntax error comes with 0, a range error
\* (of ParseUint, or of the cutoff 2^63) with the nearest int64 of the sign
ParseInt(s) ==
    IF s = "" THEN [val |-> 0, err |-> "syntax"]
    ELSE LET neg == Head(s) = "-"
             u == IF Head(s) \in {"+", "-"} THEN Tail(s) ELSE s
             uerr == ParseUint(u)
         IN  IF uerr = "syntax" THEN [val |-> 0, err |-> "syntax"]
             ELSE IF uerr = "range"
                  THEN [val |-> IF neg THEN MinInt64 ELSE MaxInt64, err |-> "range"]
             ELSE IF ~neg /\ ~NumGreater(MinInt64Abs, u)
                  THEN [val |-> MaxInt64, err |-> "range"]
             ELSE IF neg /\ NumGreater(u, MinInt64Abs)
                  THEN [val |-> MinInt64, err |-> "range"]
             ELSE [val |-> IF neg THEN -DigitsValue(u, 0) ELSE DigitsValue(u, 0),
                   err |-> "nil"]

\* strconv.Atoi: the fast path for fewer than 19 bytes, else ParseInt, whose
\* value it returns with the error too.
Atoi(s) ==
    IF 0 < Len(s) /\ Len(s) < 19
    THEN LET u == IF Head(s) \in {"+", "-"} THEN Tail(s) ELSE s
         IN  IF u = "" \/ ~AllDigits(u) THEN [val |-> 0, err |-> "syntax"]
             ELSE [val |-> IF Head(s) = "-" THEN -DigitsValue(u, 0)
                                            ELSE DigitsValue(u, 0),
                   err |-> "nil"]
    ELSE ParseInt(s)

-----------------------------------------------------------------------------
(* strconv.ParseBool                                                       *)

\* ParseBool folding the case of its argument first
ParseBoolAnyCase(str) ==
    IF ToLower(str) \in {"1", "t", "true"} THEN [val |-> TRUE, err |-> "nil"]
    ELSE IF ToLower(str) \in {"0", "f", "false"} THEN [val |-> FALSE, err |-> "nil"]
    ELSE [val |-> FALSE, err |-> "syntax"]

ParseBool(str) ==
    IF str \in {"1", "t", "T", "TRUE", "true", "True"}
    THEN [val |-> TRUE, err |-> "nil"]
    ELSE IF str \in {"0", "f", "F", "FALSE", "false", "False"}
    THEN [val |-> FALSE, err |-> "nil"]
    ELSE [val |-> FALSE, err |-> "syntax"]

-----------------------------------------------------------------------------
(* strconv.ParseFloat(s, 64).  A finite number is [class |-> "num", neg,    *)
(* hex, digits, exp]: digits (no zero at either end) times 10^exp, or 2^exp *)
(* when hex; zero has no digits.  The other classes are "inf" and "nan".    *)

HexLetters == {"a", "b", "c", "d", "e", "f"}

RECURSIVE StripTrailingZeros(_)
StripTrailingZeros(s) ==
    IF s # "" /\ Char(s, Len(s)) = "0"
    THEN StripTrailingZeros(SubSeq(s, 1, Len(s) - 1)) ELSE s

RECURSIVE commonPrefixLenIgnoreCase(_, _)
commonPrefixLenIgnoreCase(s, prefix) ==
    IF s = "" \/ prefix = "" \/ lower(Head(s)) # Head(prefix) THEN 0
    ELSE 1 + commonPrefixLenIgnoreCase(Tail(s), Tail(prefix))

Inf(neg) == [class |-> "inf", neg |-> neg, hex |-> FALSE, digits |-> "", exp |-> 0]
NaN == [class |-> "nan", neg |-> FALSE, hex |-> FALSE, digits |-> "", exp |-> 0]

NotSpecial == [ok |-> FALSE, n |-> 0, val |-> NaN]

\* special at "infinity", n bytes of which s holds after nsign bytes of sign:
\* "inf" or "infinity"
specialInf(neg, nsign, n) ==
    IF n = 3 \/ n = 8 THEN [ok |-> TRUE, n |-> nsign + n, val |-> Inf(neg)]
    ELSE IF 3 < n /\ n < 8 THEN [ok |-> TRUE, n |-> nsign + 3, val |-> Inf(neg)]
    ELSE NotSpecial

\* strconv's special(s): [ok, n, val], n the bytes read
special(s) ==
    IF s = "" THEN NotSpecial
    ELSE IF Head(s) \in {"+", "-"}
    THEN specialInf(Head(s) = "-", 1, commonPrefixLenIgnoreCase(Tail(s), "infinity"))
    ELSE IF Head(s) \in {"i", "I"}
    THEN specialInf(FALSE, 0, commonPrefixLenIgnoreCase(s, "infinity"))
    ELSE IF Head(s) \in {"n", "N"} /\ commonPrefixLenIgnoreCase(s, "nan") = 3
    THEN [ok |-> TRUE, n |-> 3, val |-> NaN]
    ELSE NotSpecial

\* strconv's underscoreOK(s): an underscore only between digits, a base
\* prefix counting as a digit.  saw is "^", "0", "_" or "!".
RECURSIVE underscoreScan(_, _, _, _)
underscoreScan(s, i, saw, hex) ==
    IF i > Len(s) THEN saw # "_"
    ELSE IF Char(s, i) \in Digits \/ (hex /\ lower(Char(s, i)) \in HexLetters)
    THEN underscoreScan(s, i + 1, "0", hex)
    ELSE IF Char(s, i) = "_" THEN saw = "0" /\ underscoreScan(s, i + 1, "_", hex)
    ELSE saw # "_" /\ underscoreScan(s, i + 1, "!", hex)

underscoreUnsigned(s) ==
    IF Len(s) >= 2 /\ Head(s) = "0" /\ lower(Char(s, 2)) \in {"b", "o", "x"}
    THEN underscoreScan(s, 3, "0", lower(Char(s, 2)) = "x")
    ELSE underscoreScan(s, 1, "^", FALSE)

underscoreOK(s) ==
    underscoreUnsigned(IF s # "" /\ Head(s) \in {"+", "-"} THEN Tail(s) ELSE s)

\* readFloat's loop over the mantissa, from byte i: [i, sawdigits, sawdot,
\* nd, dp, digits, underscores], digits holding the mantissa without its
\* leading zeros.
RECURSIVE readMantissa(_, _, _, _, _, _, _, _, _)
readMantissa(s, hex, i, sawdot, sawdigits, nd, dp, digits, underscores) ==
    IF i <= Len(s) /\ Char(s, i) = "_"
    THEN readMantissa(s, hex, i + 1, sawdot, sawdigits, nd, dp, digits, TRUE)
    ELSE IF i <= Len(s) /\ Char(s, i) = "." /\ ~sawdot
    THEN readMantissa(s, hex, i + 1, TRUE, sawdigits, nd, nd, digits, underscores)
    ELSE IF i <= Len(s) /\ Char(s, i) = "0" /\ nd = 0
    THEN readMantissa(s, hex, i + 1, sawdot, TRUE, nd, dp - 1, digits, underscores)
    ELSE IF i <= Len(s) /\ (Char(s, i) \in Digits \/ (hex /\ lower(Char(s, i)) \in HexLetters))
    THEN readMantissa(s, hex, i + 1, sawdot, TRUE, nd + 1, dp,
                      digits \o lower(Char(s, i)), underscores)
    ELSE [i |-> i, sawdot |-> sawdot, sawdigits |-> sawdigits, nd |-> nd, dp |-> dp,
          digits |-> digits, underscores |-> underscores]

\* readFloat's loop over the exponent's digits, from byte i: [i, e, underscores]
RECURSIVE readExponent(_, _, _, _)
readExponent(s, i, e, underscores) ==
    IF i <= Len(s) /\ Char(s, i) = "_" THEN readExponent(s, i + 1, e, TRUE)
    ELSE IF i <= Len(s) /\ Char(s, i) \in Digits
    THEN readExponent(s, i + 1, IF e < 10000 THEN e * 10 + DigitVal(Char(s, i)) ELSE e,
                      underscores)
    ELSE [i |-> i, e |-> e, underscores |-> underscores]

NoFloat == [ok |-> FALSE, i |-> 1, val |-> NaN]

\* digits times base^exp, the zeros at the end of digits moved into exp
Number(neg, hex, digits, exp) ==
    IF StripTrailingZeros(digits) = ""
    THEN [class |-> "num", neg |-> neg, hex |-> FALSE, digits |-> "", exp |-> 0]
    ELSE [class |-> "num", neg |-> neg, hex |-> hex, digits |-> StripTrailingZeros(digits),
          exp |-> exp + (IF hex THEN 4 ELSE 1)
                        * (Len(digits) - Len(StripTrailingZeros(digits)))]

\* readFloat's end: the underscores are checked on the bytes read, s[:iEnd-1];
\* the number is the mantissa's digits times base^(dp - nd)
readFloatEnd(s, hex, m, iEnd, dp, underscores) ==
    IF underscores /\ ~underscoreOK(SubSeq(s, 1, iEnd - 1)) THEN NoFloat
    ELSE [ok |-> TRUE, i |-> iEnd,
          val |-> Number(Head(s) = "-", hex, m.digits, dp - (IF hex THEN 4 * m.nd ELSE m.nd))]

\* the decimal point's place after the mantissa m, in bits when hex
readFloatPoint(hex, m) == (IF hex THEN 4 ELSE 1) * (IF m.sawdot THEN m.dp ELSE m.nd)

\* readFloat after the exponent x, read from its digits
readFloatExponent(s, hex, m, esign, x) ==
    readFloatEnd(s, hex, m, x.i, readFloatPoint(hex, m) + x.e * esign, x.underscores)

\* readFloat at the exponent's sign, byte j being the exponent's byte
readFloatSign(s, hex, m, j) ==
    IF j + 1 > Len(s) THEN NoFloat
    ELSE IF Char(s, j + 1) \in {"+", "-"}
    THEN IF j + 2 > Len(s) \/ Char(s, j + 2) \notin Digits THEN NoFloat
         ELSE readFloatExponent(s, hex, m, IF Char(s, j + 1) = "-" THEN -1 ELSE 1,
                                readExponent(s, j + 2, 0, m.underscores))
    ELSE IF Char(s, j + 1) \notin Digits THEN NoFloat
    ELSE readFloatExponent(s, hex, m, 1, readExponent(s, j + 1, 0, m.underscores))

\* readFloat after the mantissa m: a hexadecimal mantissa must have an exponent
readFloatMantissa(s, hex, m) ==
    IF ~m.sawdigits THEN NoFloat
    ELSE IF m.i <= Len(s) /\ lower(Char(s, m.i)) = (IF hex THEN "p" ELSE "e")
    THEN readFloatSign(s, hex, m, m.i)
    ELSE IF hex THEN NoFloat
    ELSE readFloatEnd(s, hex, m, m.i, readFloatPoint(hex, m), m.underscores)

\* readFloat after the sign, byte i0 the first of the digits or of 0x
readFloatBase(s, hex, i0) ==
    readFloatMantissa(s, hex,
        readMantissa(s, hex, IF hex THEN i0 + 2 ELSE i0, FALSE, FALSE, 0, 0, "", FALSE))

readFloatDigits(s, i0) ==
    readFloatBase(s, i0 + 2 <= Len(s) /\ Char(s, i0) = "0" /\ lower(Char(s, i0 + 1)) = "x", i0)

\* strconv's readFloat(s): [ok, i, val], i the bytes read plus one
readFloat(s) ==
    IF s = "" THEN NoFloat
    ELSE readFloatDigits(s, IF Head(s) \in {"+", "-"} THEN 2 ELSE 1)

\* 0.a against 0.b, two digit strings read as fractions in one base: -1 for
\* less, 0 for equal, 1 for greater
RECURSIVE FracCompare(_, _)
FracCompare(a, b) ==
    IF a = "" THEN (IF StripZeros(b) = "" THEN 0 ELSE -1)
    ELSE IF b = "" THEN (IF StripZeros(a) = "" THEN 0 ELSE 1)
    ELSE IF Head(a) = Head(b) THEN FracCompare(Tail(a), Tail(b))
    ELSE IF DigitVal(Head(a)) < DigitVal(Head(b)) THEN -1 ELSE 1

\* the four bits of a hexadecimal digit, and the bits of a string of them
Nibble(c) ==
    CASE c = "0" -> "0000" [] c = "1" -> "0001" [] c = "2" -> "0010" [] c = "3" -> "0011"
      [] c = "4" -> "0100" [] c = "5" -> "0101" [] c = "6" -> "0110" [] c = "7" -> "0111"
      [] c = "8" -> "1000" [] c = "9" -> "1001" [] c = "a" -> "1010" [] c = "b" -> "1011"
      [] c = "c" -> "1100" [] c = "d" -> "1101" [] c = "e" -> "1110" [] c = "f" -> "1111"
RECURSIVE HexToBits(_)
HexToBits(d) == IF d = "" THEN "" ELSE Nibble(Head(d)) \o HexToBits(Tail(d))

\* the digits of v from its first that is not zero: decimal digits, or bits
\* when hex
Mantissa(v) == IF v.hex THEN StripZeros(HexToBits(v.digits)) ELSE v.digits

\* The number v is 0.Mantissa(v) times 10^Magnitude(v), or times
\* 2^Magnitude(v) when hex.
Magnitude(v) == Len(Mantissa(v)) + v.exp

\* a number of magnitude mag and digits mant against one of bmag and bmant
CompareAt(mag, mant, bmag, bmant) ==
    IF mag > bmag THEN 1 ELSE IF mag < bmag THEN -1 ELSE FracCompare(mant, bmant)

\* |v| against a border, which is given twice: as 0.decimal times 10^decExp
\* and as 0.bits times 2^binExp
Compare(v, border) ==
    IF v.hex THEN CompareAt(Magnitude(v), Mantissa(v), border.binExp, border.bits)
    ELSE CompareAt(Magnitude(v), Mantissa(v), border.decExp, border.decimal)

AtLeast(v, border) == v.digits # "" /\ Compare(v, border) >= 0
AtMost(v, border) == v.digits # "" /\ Compare(v, border) <= 0

Zero(neg) == [class |-> "num", neg |-> neg, hex |-> FALSE, digits |-> "", exp |-> 0]

\* 2^1024 - 2^970, halfway from math.MaxFloat64 to 2^1024: a number rounds to
\* nearest, a tie to the even mantissa, so from here on it rounds to 2^1024,
\* which is no float64
MaxFloat64Halfway ==
    [decimal |->
    "179769313486231580793728971405303415079934132710037826936173" \o
    "778980444968292764750946649017977587207096330286416692887910" \o
    "946555547851940402630657488671505820681908902000708383676273" \o
    "854845817711531764475730270069855571366959622842914819860834" \o
    "936475292719074168444365510704342711559699508093042880177904" \o
    "174497792",
     decExp |-> 309,
     bits |-> "111111111111111111111111111111111111111111111111111111",
     binExp |-> 1024]

\* 2^-1075, half the least float64 above zero: up to here, the tie included,
\* a number rounds to zero
MinFloat64Half ==
    [decimal |->
    "247032822920623272088284396434110686182529901307162382212792" \o
    "841250337753635104375932649918180817996189898282347722858865" \o
    "463328355177969898199387398005390939063150356595155702263922" \o
    "908583924491051844359318028499365361525003193704576782492193" \o
    "656236698636584807570015857692699037063119282795585513329278" \o
    "343384093519780155312465972635795746227664652728272200563740" \o
    "064854999770965994704540208281662262378573934507363390079677" \o
    "619305775067401763246736009689513405355374585166611342237666" \o
    "786041621596804619144672918403005300575308490487653917113865" \o
    "916462395249126236538818796362393732804238910186723484976682" \o
    "350898633885879256283027559956575244555072551893136908362547" \o
    "791869486679949683240497058210285131854513962138377228261454" \o
    "37693412532098591327667236328125",
     decExp |-> -323,
     bits |-> "1",
     binExp |-> -1074]

Float64Overflows(v) == AtLeast(v, MaxFloat64Halfway)
Float64Underflows(v) == AtMost(v, MinFloat64Half)

SyntaxError == [val |-> Zero(FALSE), err |-> "syntax"]

\* atof64 on the number v that readFloat read: a number too large is a range
\* error, one too small is zero
atof64(v) ==
    IF Float64Overflows(v) THEN [val |-> Inf(v.neg), err |-> "range"]
    ELSE IF Float64Underflows(v) THEN [val |-> Zero(v.neg), err |-> "nil"]
    ELSE [val |-> v, err |-> "nil"]

parseNumber(s, rf) ==
    IF ~rf.ok \/ rf.i # Len(s) + 1 THEN SyntaxError ELSE atof64(rf.val)

parseSpecial(s, sp) ==
    IF sp.ok
    THEN IF sp.n = Len(s) THEN [val |-> sp.val, err |-> "nil"] ELSE SyntaxError
    ELSE parseNumber(s, readFloat(s))

\* strconv.ParseFloat(s, 64): the whole of s must be a number
ParseFloat(s) == parseSpecial(s, special(s))

-----------------------------------------------------------------------------
(* The program.                                                            *)
(*                                                                         *)
(* envStruct is the argument of the call: its shape and, for a struct, the *)
(* declared fields [Name, Kind, Exported, Tag], Tag a function from tag    *)
(* keys to strings.  target holds the struct's field values.               *)

VARIABLES
    envStruct,  \* the argument: [shape, fields]
    target,     \* the struct's field values, one per declared field
    old,        \* the field values before the call
    environ,    \* the process environment: a function from names to values
    disk,       \* the files: a function from file names to [parses, props]
    args,       \* loadVariables' arguments: [prefix, fileName]
    props,      \* manageFields' props: [isNil, get], get a function
    i,          \* manageFields' loop index, counting the fields done
    got,        \* the last getEnvValue result: [value, err, ok]
    pc,         \* "start", "fields", "returned" or "panicked"
    err         \* the error the call returned ("nil": none)

vars == <<envStruct, target, old, environ, disk, args, props, i, got, pc, err>>

NoError == "nil"

EmptyMap == [k \in {} |-> ""]

\* the four entry points, as the arguments each passes to loadVariables
LoadVariables == [prefix |-> "", fileName |-> "app.properties"]
LoadVariablesWithProps(fileName) == [prefix |-> "", fileName |-> fileName]
LoadVariablesWithPrefix(prefix) == [prefix |-> prefix, fileName |-> "app.properties"]
LoadVariablesWithPrefixAndProps(prefix, fileName) == [prefix |-> prefix, fileName |-> fileName]

\* properties.LoadFile(fileName, properties.UTF8): [props, err], err set for a
\* file that is missing or does not parse
LoadFile(fileName) ==
    IF fileName \in DOMAIN disk /\ disk[fileName].parses
    THEN [props |-> [isNil |-> FALSE, get |-> disk[fileName].props], err |-> NoError]
    ELSE [props |-> [isNil |-> TRUE, get |-> EmptyMap],
          err |-> IF fileName \in DOMAIN disk THEN "parse error" ELSE "no such file"]

\* f.Tag.Lookup(key): [value, ok]
TagLookup(f, key) ==
    IF key \in DOMAIN f.Tag THEN [value |-> f.Tag[key], ok |-> TRUE]
    ELSE [value |-> "", ok |-> FALSE]

\* os.LookupEnv(name)
LookupEnv(name) ==
    IF name \in DOMAIN environ THEN [value |-> environ[name], ok |-> TRUE]
    ELSE [value |-> "", ok |-> FALSE]

\* props.Get(name), for property values that hold no ${...} reference
PropsGet(p, name) ==
    IF name \in DOMAIN p.get THEN [value |-> p.get[name], ok |-> TRUE]
    ELSE [value |-> "", ok |-> FALSE]

getTags(f) ==
    LET mvenv == TagLookup(f, "mvenv")
        crit == TagLookup(f, "crit")
        def == TagLookup(f, "def")
    IN  [Name |-> IF mvenv.ok THEN mvenv.value ELSE f.Name,
         Critical |-> crit.ok /\ ToLower(crit.value) \in {"true", "y", "t"},
         HasDefault |-> def.ok,
         Default |-> IF def.ok THEN def.value ELSE ""]

\* the name getEnvValue looks up
effectiveName(eTags, prefix) ==
    IF prefix # "" THEN prefix \o "_" \o eTags.Name ELSE eTags.Name

missingError(name) ==
    "Critical Config field " \o name \o " missing from the environment"

convertError(name, kind) == "Error converting field " \o name \o " to " \o kind

\* getEnvValue asking the properties before the environment
getEnvValuePropsFirst(eTags, p, prefix) ==
    LET name == effectiveName(eTags, prefix)
        fromEnv == LookupEnv(name)
        fromProps == PropsGet(p, name)
    IN  IF ~p.isNil /\ fromProps.ok
        THEN [value |-> fromProps.value, err |-> NoError, ok |-> TRUE]
        ELSE IF fromEnv.ok THEN [value |-> fromEnv.value, err |-> NoError, ok |-> TRUE]
        ELSE IF eTags.HasDefault
        THEN [value |-> eTags.Default, err |-> NoError, ok |-> TRUE]
        ELSE IF eTags.Critical
        THEN [value |-> "", err |-> missingError(name), ok |-> FALSE]
        ELSE [value |-> "", err |-> NoError, ok |-> FALSE]

\* getEnvValue failing a critical field before it looks at the default
getEnvValueCriticalFirst(eTags, p, prefix) ==
    LET name == effectiveName(eTags, prefix)
        fromEnv == LookupEnv(name)
        fromProps == PropsGet(p, name)
    IN  IF fromEnv.ok THEN [value |-> fromEnv.value, err |-> NoError, ok |-> TRUE]
        ELSE IF ~p.isNil /\ fromProps.ok
        THEN [value |-> fromProps.value, err |-> NoError, ok |-> TRUE]
        ELSE IF eTags.Critical
        THEN [value |-> "", err |-> missingError(name), ok |-> FALSE]
        ELSE IF eTags.HasDefault
        THEN [value |-> eTags.Default, err |-> NoError, ok |-> TRUE]
        ELSE [value |-> "", err |-> NoError, ok |-> FALSE]

getEnvValue(eTags, p, prefix) ==
    LET name == effectiveName(eTags, prefix)
        fromEnv == LookupEnv(name)
        fromProps == PropsGet(p, name)
    IN  IF fromEnv.ok THEN [value |-> fromEnv.value, err |-> NoError, ok |-> TRUE]
        ELSE IF ~p.isNil /\ fromProps.ok
        THEN [value |-> fromProps.value, err |-> NoError, ok |-> TRUE]
        ELSE IF eTags.HasDefault
        THEN [value |-> eTags.Default, err |-> NoError, ok |-> TRUE]
        ELSE IF eTags.Critical
        THEN [value |-> "", err |-> missingError(name), ok |-> FALSE]
        ELSE [value |-> "", err |-> NoError, ok |-> FALSE]

-----------------------------------------------------------------------------
(* reflect: the kinds manageFields tells apart, and the setters.           *)

IntKinds == {"Int", "Int8", "Int16", "Int32", "Int64"}
Kinds == {"String", "Bool", "Float32", "Float64", "Uint"} \cup IntKinds

\* the conversions int8(x) and int16(x): x in two's complement of 8 and 16 bits
Wrap8(x) == ((x + 128) % 256) - 128
Wrap16(x) == ((x + 32768) % 65536) - 32768

\* reflect.Value.SetInt(x) on a field of the kind: the value the field holds
\* after it.  The model's integers lie within 32 bits, where int32(x),
\* int64(x) and int(x) are x.
SetInt(kind, x) ==
    IF kind = "Int8" THEN Wrap8(x)
    ELSE IF kind = "Int16" THEN Wrap16(x)
    ELSE x

\* 2^128 - 2^103 - 2^74: a number from here on rounds to a float64 of at
\* least 2^128 - 2^103, halfway from math.MaxFloat32 to 2^128, which float32()
\* rounds to +Inf
MaxFloat32Halfway ==
    [decimal |->
    "340282356779733642748073463979561713664",
     decExp |-> 39,
     bits |-> "111111111111111111111111011111111111111111111111111111",
     binExp |-> 128]

\* 2^-150 + 2^-203: a number up to here rounds to a float64 of at most
\* 2^-150, half the least float32 above zero, which float32() rounds to zero
MinFloat32Half ==
    [decimal |->
    "700649232162408613249555764909229404940931643189810893256686" \o
    "250959484705106887985614554519623353805814935289071420211962" \o
    "08236943903102655895054340362548828125",
     decExp |-> -45,
     bits |-> "100000000000000000000000000000000000000000000000000001",
     binExp |-> -149]

\* float32(x) of the float64 nearest to x is infinite, is zero
Float32Overflows(v) == AtLeast(v, MaxFloat32Halfway)
Float32Underflows(v) == AtMost(v, MinFloat32Half)

\* reflect.Value.SetFloat(x) on a field of the kind
SetFloat(kind, x) ==
    IF kind = "Float32" /\ x.class = "num"
    THEN IF Float32Overflows(x) THEN Inf(x.neg)
         ELSE IF Float32Underflows(x) THEN Zero(x.neg)
         ELSE x
    ELSE x

\* the number of the struct's fields: t.NumField()
NumField == Len(envStruct.fields)

\* e.FieldByName(name): the index of the first field of that name
FieldByName(name) ==
    CHOOSE j \in 1..NumField :
        /\ envStruct.fields[j].Name = name
        /\ \A k \in 1..(j - 1) : envStruct.fields[k].Name # name

\* fld.CanSet(), e being the Elem of a pointer: the field is exported
CanSet(j) == envStruct.fields[j].Exported

\* what one pass of manageFields' loop leaves: the field values, the error
\* it returns with ("nil": it goes on) and what getEnvValue gave
Pass(t, e, r) == [target |-> t, err |-> e, got |-> r]

\* the pass after strconv.Atoi: the field fld gets int64(val)
setInt(t, fld, eTags, r, parsed) ==
    IF parsed.err # NoError THEN Pass(t, convertError(eTags.Name, "int"), r)
    ELSE Pass([t EXCEPT ![fld] = SetInt(envStruct.fields[fld].Kind, parsed.val)], NoError, r)

\* the pass after strconv.ParseBool
setBool(t, fld, eTags, r, parsed) ==
    IF parsed.err # NoError THEN Pass(t, convertError(eTags.Name, "bool"), r)
    ELSE Pass([t EXCEPT ![fld] = parsed.val], NoError, r)

\* the pass after strconv.ParseFloat
setFloat(t, fld, eTags, r, parsed) ==
    IF parsed.err # NoError THEN Pass(t, convertError(eTags.Name, "float"), r)
    ELSE Pass([t EXCEPT ![fld] = SetFloat(envStruct.fields[fld].Kind, parsed.val)], NoError, r)

\* setField with an error for a kind it does not coerce to
setFieldStrict(n, t, fld, eTags, r) ==
    IF CanSet(fld)
    THEN IF envStruct.fields[n].Kind = "String"
         THEN Pass([t EXCEPT ![fld] = r.value], NoError, r)
         ELSE IF envStruct.fields[n].Kind \in {"Int", "Int8", "Int32", "Int64"}
         THEN setInt(t, fld, eTags, r, Atoi(r.value))
         ELSE IF envStruct.fields[n].Kind = "Bool"
         THEN setBool(t, fld, eTags, r, ParseBool(r.value))
         ELSE IF envStruct.fields[n].Kind = "Float32"
         THEN setFloat(t, fld, eTags, r, ParseFloat(r.value))
         ELSE Pass(t, convertError(eTags.Name, "unsupported"), r)
    ELSE Pass(t, NoError, r)

\* the pass for a value found: the kind is that of field n, and the value is
\* written to fld, the field found by name, when it can be set
setField(n, t, fld, eTags, r) ==
    IF CanSet(fld)
    THEN IF envStruct.fields[n].Kind = "String"
         THEN Pass([t EXCEPT ![fld] = r.value], NoError, r)
         ELSE IF \/ envStruct.fields[n].Kind = "Int"
                 \/ envStruct.fields[n].Kind = "Int8"
                 \/ envStruct.fields[n].Kind = "Int32"
                 \/ envStruct.fields[n].Kind = "Int64"
         THEN setInt(t, fld, eTags, r, Atoi(r.value))
         ELSE IF envStruct.fields[n].Kind = "Bool"
         THEN setBool(t, fld, eTags, r, ParseBool(r.value))
         ELSE IF \/ envStruct.fields[n].Kind = "Float32"
                 \/ envStruct.fields[n].Kind = "Float32"
         THEN setFloat(t, fld, eTags, r, ParseFloat(r.value))
         ELSE Pass(t, NoError, r)
    ELSE Pass(t, NoError, r)

\* the pass after getEnvValue gave r
lookedUp(n, t, eTags, r) ==
    IF r.ok THEN setField(n, t, FieldByName(envStruct.fields[n].Name), eTags, r)
    ELSE IF r.err # NoError THEN Pass(t, r.err, r)
    ELSE Pass(t, NoError, r)

\* the pass after getTags gave eTags
tagged(n, t, eTags, p, prefix) == lookedUp(n, t, eTags, getEnvValue(eTags, p, prefix))

\* One pass of manageFields' loop, for the field at index n (from 1), on the
\* field values t, with the properties p and the prefix.
manageField(n, t, p, prefix) == tagged(n, t, getTags(envStruct.fields[n]), p, prefix)

-----------------------------------------------------------------------------
(* The calls.                                                              *)

Prefixes == {"", "APP"}
FileNames == {"app.properties", "custom.properties"}

\* loadVariables up to manageFields' loop: the file is loaded, a failure to
\* load leaving props nil; reflect.ValueOf(envVar).Elem() and t.NumField()
\* panic unless envVar points to a struct.
\* loadVariables returning the error of a file that does not load
loadVariablesStrict(a) ==
    /\ pc = "start"
    /\ args' = a
    /\ props' = LoadFile(a.fileName).props
    /\ pc' = IF LoadFile(a.fileName).err # NoError THEN "returned"
             ELSE IF envStruct.shape = "PtrToStruct" THEN "fields" ELSE "panicked"
    /\ err' = LoadFile(a.fileName).err
    /\ UNCHANGED <<envStruct, target, old, environ, disk, i, got>>

loadVariables(a) ==
    /\ pc = "start"
    /\ args' = a
    /\ props' = LoadFile(a.fileName).props
    /\ pc' = IF envStruct.shape = "PtrToStruct" THEN "fields" ELSE "panicked"
    /\ UNCHANGED <<envStruct, target, old, environ, disk, i, got, err>>

CallLoadVariables == loadVariables(LoadVariables)

CallLoadVariablesWithProps ==
    \E fileName \in FileNames : loadVariables(LoadVariablesWithProps(fileName))

CallLoadVariablesWithPrefix ==
    \E prefix \in Prefixes : loadVariables(LoadVariablesWithPrefix(prefix))

CallLoadVariablesWithPrefixAndProps ==
    \E prefix \in Prefixes, fileName \in FileNames :
        loadVariables(LoadVariablesWithPrefixAndProps(prefix, fileName))

\* ManageField undoing the fields written when a field fails
ManageFieldRollsBack ==
    /\ pc = "fields"
    /\ i < NumField
    /\ \E r \in {manageField(i + 1, target, props, args.prefix)} :
           /\ target' = IF r.err # NoError THEN old ELSE r.target
           /\ got' = r.got
           /\ err' = r.err
           /\ pc' = IF r.err # NoError THEN "returned" ELSE "fields"
           /\ i' = IF r.err # NoError THEN i ELSE i + 1
    /\ UNCHANGED <<envStruct, old, environ, disk, args, props>>

\* one pass of the loop of manageFields
ManageField ==
    /\ pc = "fields"
    /\ i < NumField
    /\ \E r \in {manageField(i + 1, target, props, args.prefix)} :
           /\ target' = r.target
           /\ got' = r.got
           /\ err' = r.err
           /\ pc' = IF r.err # NoError THEN "returned" ELSE "fields"
           /\ i' = IF r.err # NoError THEN i ELSE i + 1
    /\ UNCHANGED <<envStruct, old, environ, disk, args, props>>

\* the loop is over: manageFields returns nil
Return ==
    /\ pc = "fields"
    /\ i = NumField
    /\ pc' = "returned"
    /\ err' = NoError
    /\ UNCHANGED <<envStruct, target, old, environ, disk, args, props, i, got>>

Next ==
    \/ CallLoadVariables
    \/ CallLoadVariablesWithProps
    \/ CallLoadVariablesWithPrefix
    \/ CallLoadVariablesWithPrefixAndProps
    \/ ManageField
    \/ Return

-----------------------------------------------------------------------------
(* The states a call starts from.                                          *)

MaxFields == 2

\* the names of a struct's fields, by position
FieldNames == <<"Port", "Host", "Debug", "Rate", "Limit">>

\* none, or one of S
Opt(S) == {<<>>} \cup {<<v>> : v \in S}

\* the struct tag with the keys given
MakeTag(mvenv, crit, def) ==
    [k \in (IF mvenv # <<>> THEN {"mvenv"} ELSE {})
           \cup (IF crit # <<>> THEN {"crit"} ELSE {})
           \cup (IF def # <<>> THEN {"def"} ELSE {})
       |-> IF k = "mvenv" THEN mvenv[1] ELSE IF k = "crit" THEN crit[1] ELSE def[1]]

\* the functions from a subset of Keys to Vals
PartialMaps(Keys, Vals) == UNION {[K -> Vals] : K \in SUBSET Keys}

\* the declarations of a field: KindExp a set of <<kind, exported>>; the name
\* of a field that is not exported starts with a small letter
FieldDecls(name, KindExp, Mvenvs, Crits, Defs) ==
    {[Name |-> IF ke[2] THEN name ELSE lower(Head(name)) \o Tail(name),
      Kind |-> ke[1], Exported |-> ke[2], Tag |-> MakeTag(m, c, d)] :
        ke \in KindExp, m \in Opt(Mvenvs), c \in Opt(Crits), d \in Opt(Defs)}

\* the field lists of n fields, the field at position p drawn from decls[p]
RECURSIVE FieldLists(_, _)
FieldLists(n, decls) ==
    IF n = 0 THEN {<<>>}
    ELSE {Append(fs, d) : fs \in FieldLists(n - 1, decls), d \in decls[n]}

\* a value a field of the kind holds before the call, b for a bool
OldValue(kind, b) ==
    IF kind = "String" THEN "old"
    ELSE IF kind = "Bool" THEN b
    ELSE IF kind \in {"Float32", "Float64"}
    THEN [class |-> "num", neg |-> FALSE, hex |-> FALSE, digits |-> "99", exp |-> 0]
    ELSE 99

\* A call starts with the target as it was, and nothing done.
Start ==
    /\ old \in {[p \in 1..Len(envStruct.fields) |-> OldValue(envStruct.fields[p].Kind, b)] :
                   b \in BOOLEAN}
    /\ target = old
    /\ args = LoadVariables
    /\ props = [isNil |-> TRUE, get |-> EmptyMap]
    /\ i = 0
    /\ got = [value |-> "", err |-> NoError, ok |-> FALSE]
    /\ pc = "start"
    /\ err = NoError

\* a pointer to a struct of the fields, and the arguments that are none:
\* a struct by value, a pointer to an int, nil
PtrToStruct(fields) == [shape |-> "PtrToStruct", fields |-> fields]
NotRecords(decls) ==
    {[shape |-> "Struct", fields |-> fs] : fs \in FieldLists(1, decls)}
        \cup {[shape |-> "PtrToInt", fields |-> <<>>], [shape |-> "Nil", fields |-> <<>>]}

\* the file of the name holding the properties P, parsing or not
File(name, P, parses) == [n \in {name} |-> [parses |-> parses, props |-> P]]

\* the environment, or the properties, that hold each of Keys under a value
\* that tells the source and the key
Tell(source, Keys) == [k \in Keys |-> source \o k]

\* the strings of at most n bytes of the alphabet
RECURSIVE StringsUpTo(_, _)
StringsUpTo(alphabet, n) ==
    IF n = 0 THEN {""}
    ELSE StringsUpTo(alphabet, n - 1)
         \cup {s \o c : s \in StringsUpTo(alphabet, n - 1), c \in alphabet}

\* the spellings of the word in upper and lower case letters
RECURSIVE Casings(_)
Casings(word) ==
    IF word = "" THEN {""}
    ELSE {c \o rest : c \in {Head(word), lower(Head(word))}, rest \in Casings(Tail(word))}

\* a struct of the one field Port of the kind, exported or not as Exporteds
\* says, with the tags of Defs as its default or none, and VALUE in the
\* environment holding one of Raws or not set
OneFieldStructs(FieldKinds, Exporteds, Defs) ==
    {PtrToStruct(<<d>>) :
        d \in FieldDecls(FieldNames[1], {<<k, e>> : k \in FieldKinds, e \in Exporteds},
                         {"VALUE"}, {}, Defs)}
        \cup {[shape |-> "Nil", fields |-> <<>>]}
OneFieldEnvirons(Raws) == PartialMaps({"VALUE"}, Raws)

\* Up to MaxFields fields, each critical or not: a string or an int, with an
\* empty default or none, or a uint or an unexported int, which no call
\* writes or converts, with no default.  The environment and app.properties may hold each
\* field's name, or the file holds them all and does not parse.
MainDecls ==
    [p \in 1..Len(FieldNames) |->
     FieldDecls(FieldNames[p], {<<"String", TRUE>>, <<"Int", TRUE>>}, {}, {"true"}, {""})
         \cup FieldDecls(FieldNames[p], {<<"Uint", TRUE>>, <<"Int", FALSE>>},
                         {}, {"true"}, {})]
MainStructs ==
    {PtrToStruct(fs) : fs \in UNION {FieldLists(n, MainDecls) : n \in 0..MaxFields}}
        \cup NotRecords(MainDecls)
MainEnvirons(fields) ==
    PartialMaps({getTags(fields[p]).Name : p \in 1..Len(fields)}, {"7"})
MainDisks(fields) ==
    {EmptyMap} \cup
    {File("app.properties", P, TRUE) :
        P \in PartialMaps({getTags(fields[p]).Name : p \in 1..Len(fields)}, {"x"})} \cup
    {File("app.properties", [k \in {getTags(fields[p]).Name : p \in 1..Len(fields)} |-> "x"],
          FALSE)}

Init ==
    /\ envStruct \in MainStructs
    /\ environ \in MainEnvirons(envStruct.fields)
    /\ disk \in MainDisks(envStruct.fields)
    /\ Start

Spec == Init /\ [][Next]_vars

\* One field, a string or an int, under its own name or another, critical
\* or not, with a default or none.  The environment and a file, which may not
\* parse, may hold the field under each name a call may look up and under the
\* names it must not, each with a value that tells where it comes from.
LookupDecls ==
    FieldDecls(FieldNames[1], {<<"String", TRUE>>, <<"Int", TRUE>>},
               {"PORT"}, {"true", "Y", "no"}, {"", "80"})
LookupKeys == {"Port", "PORT", "APP_Port", "APP_PORT"}
LookupEnvirons == {Tell("env:", K) : K \in SUBSET LookupKeys}
LookupDisks ==
    {EmptyMap} \cup
    {File(name, Tell("props:", K), parses) :
        name \in FileNames, K \in SUBSET LookupKeys, parses \in BOOLEAN}

InitLookup ==
    /\ envStruct \in {PtrToStruct(<<d>>) : d \in LookupDecls}
                         \cup {[shape |-> "Nil", fields |-> <<>>]}
    /\ environ \in LookupEnvirons
    /\ disk \in LookupDisks
    /\ Start

SpecLookup == InitLookup /\ [][Next]_vars

\* One exported field of an integer kind, its value in the environment: every string
\* of at most MaxRawLen bytes of IntAlphabet, and numbers beyond 64 bits.
MaxRawLen == 3
IntAlphabet == {"0", "1", "3", "-", "+", "a", "_"}
IntRaws ==
    StringsUpTo(IntAlphabet, MaxRawLen)
        \cup {"9223372036854775808", "-9223372036854775809", "18446744073709551616",
              "99999999999999999999x", "0000000000000000000042"}

InitInt ==
    /\ envStruct \in OneFieldStructs(IntKinds, {TRUE}, {})
    /\ environ \in OneFieldEnvirons(IntRaws)
    /\ disk = EmptyMap
    /\ Start

SpecInt == InitInt /\ [][Next]_vars

\* One bool field, exported or not, before the call true or false, its value in the
\* environment or its default: the spellings of true, false, t and f in
\* either case and other strings.
BoolRaws ==
    Casings("TRUE") \cup Casings("FALSE") \cup Casings("T") \cup Casings("F")
        \cup {"1", "0", "", "2", "yes", "no", "Y", "on", "01", "true ", "truee"}

InitBool ==
    /\ envStruct \in OneFieldStructs({"Bool"}, BOOLEAN, {"true", "F", "maybe"})
    /\ environ \in OneFieldEnvirons(BoolRaws)
    /\ disk = EmptyMap
    /\ Start

SpecBool == InitBool /\ [][Next]_vars

\* One field of a floating-point kind, exported or not, its value in the environment: every
\* string of at most MaxRawLen bytes of FloatAlphabet, and others.
FloatAlphabet == {"0", "1", "5", ".", "e", "-", "_"}
FloatRaws ==
    StringsUpTo(FloatAlphabet, MaxRawLen)
        \cup {"3.14", "3.140", "0.314e1", "314E-2", "+3.14", "1_000.5", "0x1p-2", "0X1.8P1",
              "0x1", "inf", "-Inf", "+Infinity", "infi", "NaN", "+nan", "1e400", "-1e400",
              "1e-400", "1e39", "-1e39", "1e-46", "1.7976931348623157e308",
              "1.7976931348623159e308", "1.7976931348623158079e308",
              "1.79769313486231580794e308", "0x1.fffffffffffff8p1023",
              "0x1.fffffffffffff7p1023", "2.47032822920623272089e-324",
              "2.4703282292062327208e-324", "0x1p-1075", "0x1.1p-1075",
              "3.4028235677973366e38", "3.4028235677973365e38", "0x1.ffffffp127",
              "0x1.fffffefffffff8p127", "7.0064923216240853547e-46", "7.00649232162409e-46",
              "0x1p-150", "0x1.0000000000001p-150", "3.14abc", "abc", " 1", "1,5"}

InitFloat ==
    /\ envStruct \in OneFieldStructs({"Float32", "Float64"}, BOOLEAN, {"2.5"})
    /\ environ \in OneFieldEnvirons(FloatRaws)
    /\ disk = EmptyMap
    /\ Start

SpecFloat == InitFloat /\ [][Next]_vars

-----------------------------------------------------------------------------
(* What the claims speak of, read off the state: the call's inputs and     *)
(* what the specification says each field's outcome is.                    *)

Fields == envStruct.fields
Tag(p) == Fields[p].Tag

\* the field's lookup name, and the name under the call's prefix
LookupName(p) == IF "mvenv" \in DOMAIN Tag(p) THEN Tag(p)["mvenv"] ELSE Fields[p].Name
EffectiveName(p) ==
    IF args.prefix = "" THEN LookupName(p) ELSE args.prefix \o "_" \o LookupName(p)

\* the call's properties file loaded
FileLoaded == args.fileName \in DOMAIN disk /\ disk[args.fileName].parses

InEnvironment(p) == EffectiveName(p) \in DOMAIN environ
InProperties(p) == FileLoaded /\ EffectiveName(p) \in DOMAIN disk[args.fileName].props
HasDefault(p) == "def" \in DOMAIN Tag(p)
Mandatory(p) == "crit" \in DOMAIN Tag(p) /\ ToLower(Tag(p)["crit"]) \in {"true", "t", "y"}

\* manageFields was entered: the call is in its loop, returned or panicked.
Called == pc \in {"fields", "returned", "panicked"}

\* The call returned an error.
Failed == pc = "returned" /\ err # NoError

\* the field the loop handled last (0: none), which is the field an error
\* was raised at
LastField == IF Failed THEN i + 1 ELSE i

\* the raw value of field p by the order environment, properties (when
\* withProps), default: [found, value]
Raw(p, withProps) ==
    IF InEnvironment(p) THEN [found |-> TRUE, value |-> environ[EffectiveName(p)]]
    ELSE IF withProps /\ InProperties(p)
    THEN [found |-> TRUE, value |-> disk[args.fileName].props[EffectiveName(p)]]
    ELSE IF HasDefault(p) THEN [found |-> TRUE, value |-> Tag(p)["def"]]
    ELSE [found |-> FALSE, value |-> ""]

\* the kinds the code coerces to, and the word its error names each by
Coerced == {"String", "Int", "Int8", "Int32", "Int64", "Bool", "Float32"}
KindWord(kind) ==
    IF kind = "Bool" THEN "bool" ELSE IF kind = "Float32" THEN "float" ELSE "int"

\* the raw value coerced to the kind: [ok, val], val what the field is set
\* to when ok (the value Atoi returns with an error is never written)
Coerce(kind, raw) ==
    IF kind = "String" THEN [ok |-> TRUE, val |-> raw]
    ELSE IF kind = "Bool"
    THEN [ok |-> ParseBool(raw).err = NoError, val |-> ParseBool(raw).val]
    ELSE IF kind = "Float32"
    THEN [ok |-> ParseFloat(raw).err = NoError, val |-> SetFloat(kind, ParseFloat(raw).val)]
    ELSE IF Atoi(raw).err = NoError
    THEN [ok |-> TRUE, val |-> SetInt(kind, Atoi(raw).val)]
    ELSE [ok |-> FALSE, val |-> 0]

\* Field p is one the code writes when a raw value resolved.
Writable(p) == Fields[p].Exported /\ Fields[p].Kind \in Coerced

\* Field p fails: mandatory and not resolved, or resolved and not coerced.
Fails(p, withProps) ==
    \/ ~Raw(p, withProps).found /\ Mandatory(p)
    \/ /\ Raw(p, withProps).found
       /\ Writable(p)
       /\ ~Coerce(Fields[p].Kind, Raw(p, withProps).value).ok

\* Field p is written: resolved and coerced.
Writes(p, withProps) ==
    /\ Raw(p, withProps).found
    /\ Writable(p)
    /\ Coerce(Fields[p].Kind, Raw(p, withProps).value).ok

\* the first field that fails, in declaration order (0: none does)
FirstFailure(withProps) ==
    IF \E p \in 1..NumField : Fails(p, withProps)
    THEN CHOOSE p \in 1..NumField :
             Fails(p, withProps) /\ \A q \in 1..(p - 1) : ~Fails(q, withProps)
    ELSE 0

\* the error of the failing field k
ErrorAt(k, withProps) ==
    IF ~Raw(k, withProps).found
    THEN "Critical Config field " \o EffectiveName(k) \o " missing from the environment"
    ELSE "Error converting field " \o LookupName(k) \o " to " \o KindWord(Fields[k].Kind)

\* the error a fail-fast call returns, and the field values it leaves
ExpectedError(withProps) ==
    LET k == FirstFailure(withProps)
    IN  IF k = 0 THEN NoError ELSE ErrorAt(k, withProps)
ExpectedTarget(withProps) ==
    LET k == FirstFailure(withProps)
    IN  [p \in 1..NumField |->
            IF (k = 0 \/ p < k) /\ Writes(p, withProps)
            THEN Coerce(Fields[p].Kind, Raw(p, withProps).value).val
            ELSE old[p]]

\* The error is a missing-critical-field error.
IsMissingError(e) == Len(e) >= 22 /\ SubSeq(e, 1, 22) = "Critical Config field "

-----------------------------------------------------------------------------
(* The claims.                                                             *)

\* C1: the raw value a call uses for a field is the first hit in the order
\* environment, properties, default, looked up under the effective name
\* (prefix, "_" and lookup name, or the lookup name when the prefix is
\* empty): the environment's value wins over the properties' and the
\* default; the properties' value wins over the default; the default is used
\* as it is declared, the empty string too; and with none of the three no
\* value is used.  A string field that can be set then holds the value.
C1_SourcePriority ==
    (Called /\ LastField >= 1) =>
        /\ InEnvironment(LastField) =>
               got.ok /\ got.value = environ[EffectiveName(LastField)]
        /\ (~InEnvironment(LastField) /\ InProperties(LastField)) =>
               got.ok /\ got.value = disk[args.fileName].props[EffectiveName(LastField)]
        /\ (~InEnvironment(LastField) /\ ~InProperties(LastField) /\ HasDefault(LastField)) =>
               got.ok /\ got.value = Tag(LastField)["def"]
        /\ (~InEnvironment(LastField) /\ ~InProperties(LastField) /\ ~HasDefault(LastField)) =>
               ~got.ok
        /\ (got.ok /\ Fields[LastField].Kind = "String" /\ Fields[LastField].Exported) =>
               target[LastField] = got.value

\* C1's case: under the prefix APP a field with an `mvenv` name that the
\* environment, the properties and a default all give holds the
\* environment's value.
C1_Witness ==
    /\ pc = "returned"
    /\ err = NoError
    /\ NumField = 1
    /\ args.prefix = "APP"
    /\ InEnvironment(1) /\ InProperties(1) /\ HasDefault(1)
    /\ target[1] = "env:APP_PORT"

\* Field p is mandatory and no source has it.
Unresolvable(p) ==
    Mandatory(p) /\ ~InEnvironment(p) /\ ~InProperties(p) /\ ~HasDefault(p)

\* C2: a call returns a missing-critical-field error, naming the effective
\* name, if and only if in declaration order, no earlier field having failed,
\* it reaches a field that is mandatory, is in neither the environment nor
\* the properties (or there are none) and has no default; a mandatory field
\* that a source resolves never gives the error.
C2_MissingCritical ==
    pc = "returned" =>
        /\ IsMissingError(err) <=>
               \E p \in 1..NumField :
                   Unresolvable(p) /\ \A q \in 1..(p - 1) : ~Fails(q, FileLoaded)
        /\ IsMissingError(err) =>
               /\ Unresolvable(i + 1)
               /\ err = "Critical Config field " \o EffectiveName(i + 1)
                            \o " missing from the environment"

\* C2's case: under the prefix APP the second field, mandatory and found
\* nowhere, fails the call after the first was written from its default.
C2_Witness ==
    /\ pc = "returned"
    /\ NumField = 2
    /\ i = 1
    /\ Mandatory(1) /\ HasDefault(1)
    /\ Fields[1].Kind = "String" /\ Fields[1].Exported /\ target[1] = ""
    /\ Unresolvable(2)
    /\ err = "Critical Config field APP_Host missing from the environment"

\* C3: a call returns an error for every field tagged crit:"true" whose
\* value is in neither the environment nor the properties file.
C3_CriticalNeedsEnvOrProps ==
    pc = "returned" =>
        \A p \in 1..NumField :
            ("crit" \in DOMAIN Tag(p) /\ Tag(p)["crit"] = "true"
                /\ ~InEnvironment(p) /\ ~InProperties(p)) => err # NoError

\* the digits of a base-10 signed integer, "" for any other string
IntegerDigits(raw) ==
    IF raw = "" THEN ""
    ELSE IF Head(raw) \in {"+", "-"}
    THEN (IF AllDigits(Tail(raw)) THEN Tail(raw) ELSE "")
    ELSE (IF AllDigits(raw) THEN raw ELSE "")

\* the largest number of the kind, and the largest below zero
MaxOfKind(kind, negative) ==
    IF kind = "Int8" THEN (IF negative THEN "128" ELSE "127")
    ELSE IF kind = "Int16" THEN (IF negative THEN "32768" ELSE "32767")
    ELSE IF kind = "Int32" THEN (IF negative THEN "2147483648" ELSE "2147483647")
    ELSE (IF negative THEN "9223372036854775808" ELSE "9223372036854775807")

\* The raw value is a base-10 signed integer within the kind's range.
IntegerInRange(kind, raw) ==
    /\ IntegerDigits(raw) # ""
    /\ ~NumGreater(IntegerDigits(raw), MaxOfKind(kind, Head(raw) = "-"))

IntegerValue(raw) ==
    IF Head(raw) = "-" THEN -DigitsValue(IntegerDigits(raw), 0)
    ELSE DigitsValue(IntegerDigits(raw), 0)

\* C4: a field of an integer kind, of any width, for which a raw value
\* resolved holds that integer when the raw value is a base-10 signed integer
\* within the field's range; else the call fails with an int coercion error
\* and the field holds no wrapped or cut value.
C4_IntegerCoercion ==
    (pc = "returned" /\ NumField = 1 /\ Fields[1].Kind \in IntKinds
        /\ Raw(1, FileLoaded).found) =>
        IF IntegerInRange(Fields[1].Kind, Raw(1, FileLoaded).value)
        THEN err = NoError /\ target[1] = IntegerValue(Raw(1, FileLoaded).value)
        ELSE /\ err = "Error converting field " \o LookupName(1) \o " to int"
             /\ target[1] = old[1]

\* C5 as stated: a bool field's raw value is accepted in any letter case of
\* true, false, t and f, and as 1 and 0; any other fails the call with a bool
\* coercion error.
C5_AnyLetterCase ==
    (pc = "returned" /\ NumField = 1 /\ Fields[1].Kind = "Bool"
        /\ Raw(1, FileLoaded).found) =>
        IF ToLower(Raw(1, FileLoaded).value) \in {"true", "t", "1"}
        THEN err = NoError /\ target[1] = TRUE
        ELSE IF ToLower(Raw(1, FileLoaded).value) \in {"false", "f", "0"}
        THEN err = NoError /\ target[1] = FALSE
        ELSE err = "Error converting field " \o LookupName(1) \o " to bool"

\* C5, amended: a bool field that can be set takes its raw value as 1, t, T,
\* TRUE, true or True, writing true, and as 0, f, F, FALSE, false or False,
\* writing false; any other, a mixed case such as tRuE too, fails the call
\* with a bool coercion error and leaves the field as it was.  A bool field
\* that cannot be set (an unexported one) is never parsed: whatever the raw
\* value, the call returns no error and the field is as it was.
C5_BoolSpellings ==
    (pc = "returned" /\ NumField = 1 /\ Fields[1].Kind = "Bool"
        /\ Raw(1, FileLoaded).found) =>
        IF ~Fields[1].Exported
        THEN err = NoError /\ target[1] = old[1]
        ELSE IF Raw(1, FileLoaded).value \in {"1", "t", "T", "TRUE", "true", "True"}
        THEN err = NoError /\ target[1] = TRUE
        ELSE IF Raw(1, FileLoaded).value \in {"0", "f", "F", "FALSE", "false", "False"}
        THEN err = NoError /\ target[1] = FALSE
        ELSE /\ err = "Error converting field " \o LookupName(1) \o " to bool"
             /\ target[1] = old[1]

\* C5's case: True, from the environment, turns a false field that can be
\* set true.
C5_Witness ==
    /\ pc = "returned"
    /\ NumField = 1
    /\ Fields[1].Exported
    /\ InEnvironment(1)
    /\ got.value = "True"
    /\ old[1] = FALSE
    /\ target[1] = TRUE

\* C6: a field of a floating-point kind, float64 too, that can be set and
\* for which a raw value resolved either holds the number the raw value
\* parses to or the call fails with a float coercion error; it is never left
\* as it was without an error.
C6_FloatCoercion ==
    (pc = "returned" /\ NumField = 1 /\ Fields[1].Kind \in {"Float32", "Float64"}
        /\ Fields[1].Exported /\ Raw(1, FileLoaded).found) =>
        \/ /\ ParseFloat(Raw(1, FileLoaded).value).err = NoError
           /\ err = NoError
           /\ target[1] = SetFloat(Fields[1].Kind, ParseFloat(Raw(1, FileLoaded).value).val)
        \/ /\ ParseFloat(Raw(1, FileLoaded).value).err # NoError
           /\ err = "Error converting field " \o LookupName(1) \o " to float"

\* C7: a call with a target that is no pointer to a struct ends by returning
\* an error, no field written, and not by a panic.
C7_SchemaError ==
    (envStruct.shape # "PtrToStruct" /\ pc # "start") =>
        pc = "returned" /\ err # NoError /\ target = old

\* C8: a properties file that does not load (missing, or not parsing) is
\* never an error of the call: the error and the field values the call ends
\* with are those of the environment and the defaults alone.
C8_LoadFailureIsNoProperties ==
    (pc = "returned" /\ ~FileLoaded) =>
        /\ props.isNil
        /\ err = ExpectedError(FALSE)
        /\ target = ExpectedTarget(FALSE)

\* C8's case: the file holds both fields' names and does not parse; the
\* first field holds its default and the second the environment's value.
C8_Witness ==
    /\ pc = "returned"
    /\ err = NoError
    /\ NumField = 2
    /\ args.fileName \in DOMAIN disk
    /\ ~disk[args.fileName].parses
    /\ EffectiveName(1) \in DOMAIN disk[args.fileName].props
    /\ Fields[1].Kind = "String" /\ Fields[1].Exported
    /\ ~InEnvironment(1) /\ HasDefault(1) /\ target[1] = ""
    /\ InEnvironment(2) /\ Fields[2].Kind = "Int" /\ target[2] = 7

\* C9: the fields are handled in declaration order and a call that fails,
\* at the field of index k, does not roll back: no field is touched before
\* the loop reaches it; k is the first field that fails and the error is its
\* error; the fields from k on hold what they held before the call; each
\* field before k that resolved and was coerced holds the new value.
C9_FailFast ==
    /\ pc = "fields" => \A q \in (i + 1)..NumField : target[q] = old[q]
    /\ Failed =>
           /\ i + 1 = FirstFailure(FileLoaded)
           /\ err = ErrorAt(i + 1, FileLoaded)
           /\ \A q \in (i + 1)..NumField : target[q] = old[q]
           /\ \A q \in 1..i :
                  Writes(q, FileLoaded) =>
                      target[q] = Coerce(Fields[q].Kind, Raw(q, FileLoaded).value).val

\* C9's case: the second field fails to coerce after the first was written,
\* and the first keeps its new value.
C9_Witness ==
    /\ Failed
    /\ NumField = 2
    /\ i = 1
    /\ Writes(1, FileLoaded)
    /\ target[1] # old[1]
    /\ err = "Error converting field Host to int"

\* C10: a call changes a field only when a raw value resolved for it and
\* was coerced to a kind the code coerces to; a field that is not mandatory
\* and is found nowhere keeps its value and gives no error; a field that
\* cannot be set or is of another kind keeps its value and gives no coercion
\* error, a raw value resolved or not.
C10_OnlyResolvedFieldsChange ==
    \A p \in 1..NumField :
        /\ target[p] # old[p] =>
               /\ p <= i
               /\ Writes(p, FileLoaded)
               /\ target[p] = Coerce(Fields[p].Kind, Raw(p, FileLoaded).value).val
        /\ (Called /\ p <= LastField /\ ~Mandatory(p) /\ ~Raw(p, FileLoaded).found) =>
               target[p] = old[p] /\ ~(Failed /\ LastField = p)
        /\ (Called /\ p <= LastField /\ ~Writable(p)) =>
               /\ target[p] = old[p]
               /\ ~(Failed /\ LastField = p /\ ~IsMissingError(err))

\* C10's case: a uint field and an unexported int field, each with a raw
\* value resolved, the second one no integer, keep their values and the call
\* returns no error.
C10_Witness ==
    /\ pc = "returned"
    /\ err = NoError
    /\ NumField = 2
    /\ Fields[1].Kind = "Uint" /\ Fields[1].Exported /\ Raw(1, FileLoaded).found
    /\ ~Fields[2].Exported /\ Fields[2].Kind = "Int"
    /\ Raw(2, FileLoaded).found /\ Raw(2, FileLoaded).value = "x"
    /\ target = old

=============================================================================
